---- MODULE Spec2Model ----
(***************************************************************************)
(* A model of the retrieval front end of the RAG training system:          *)
(*   - QueryEngine (src/EnvironmentSetup.tsx, second component): the       *)
(*     query box, strategy tabs, filter inputs, handleSearch,              *)
(*     processQuery and retrieveRelevantContent;                           *)
(*   - VectorProcessor (src/VectorProcessor.tsx): findSimilar and the      *)
(*     batch embedding of processBatch;                                    *)
(*   - EnvironmentSetup (src/EnvironmentSetup.tsx, first component): the   *)
(*     service configs, their test, save, import and load on mount;        *)
(*   - DataConnector (src/MainDashboard.tsx): the connection effect and    *)
(*     fetchQuestions.                                                     *)
(*                                                                         *)
(* Strings that the code inspects character by character (the query) are   *)
(* sequences of one-character strings.  Scores are kept in hundredths      *)
(* (score 1 - i * 0.15 is 100 - 15 * i), which keeps their order and sign. *)
(***************************************************************************)
EXTENDS Integers, Sequences, FiniteSets, TLC

VARIABLES
    query,        \* QueryEngine: useState("") text of the query box
    isSearching,  \* QueryEngine: useState(false)
    results,      \* QueryEngine: useState([]) the displayed results
    strategy,     \* QueryEngine: useState("hybrid")
    filters,      \* QueryEngine: useState({bookname: "", chapter: ""})
    showFilters,  \* QueryEngine: useState(false)
    inflight,     \* retrieveRelevantContent calls waiting on their timer, oldest first
    computed,     \* fingerprints whose mock results have been generated so far
    submitted,    \* number of searches handleSearch has started
    fnIn,         \* the arguments of the last direct call of a retrieval function
    fnOut,        \* what that call returned
    processingStatus, \* VectorProcessor: useState("idle")
    progress,         \* VectorProcessor: useState(0)
    totalItems,       \* VectorProcessor: useState(0)
    processedItems,   \* VectorProcessor: useState(0)
    pbError,          \* VectorProcessor: useState(null) error
    embedding,        \* processBatch: the question (1..n) whose embedText call is awaited, 0 if none
    embedCalls,       \* processBatch: embedText calls made for each question of the batch
    configs,      \* EnvironmentSetup: useState([...]) the service configs
    isSaving,     \* EnvironmentSetup: useState(false)
    saveSuccess,  \* EnvironmentSetup: useState(false)
    stored,       \* localStorage item "rag-system-config"
    tests,        \* testConfig calls waiting on their timer, oldest first, each with its closure
    saving,       \* the closure of the saveConfigurations call waiting on its timer
    resetTimers,  \* pending 3 s timers that clear saveSuccess
    cfgEvent,     \* the handler of EnvironmentSetup that ran last, and the alert it raised
    edits,        \* key and endpoint edits made so far
    testsStarted, \* testConfig calls made so far
    savesStarted, \* saveConfigurations calls made so far
    supabase,         \* DataConnector: useState(null) the database client
    connectionStatus, \* DataConnector: useState("connecting")
    questionCount,    \* DataConnector: useState(0)
    dcError,          \* DataConnector: useState(null) error
    fqCall,           \* the fetchQuestions call in progress: its filters and the query it awaits
    fqOut,            \* how the last fetchQuestions call ended
    queriesIssued,    \* queries fetchQuestions has sent to the database
    fetches           \* fetchQuestions calls made so far

qeVars == <<query, isSearching, results, strategy, filters, showFilters,
            inflight, computed, submitted>>
fnVars == <<fnIn, fnOut>>
pbVars == <<processingStatus, progress, totalItems, processedItems, pbError,
            embedding, embedCalls>>
vars == <<query, isSearching, results, strategy, filters, showFilters,
          inflight, computed, submitted, fnIn, fnOut,
          processingStatus, progress, totalItems, processedItems, pbError,
          embedding, embedCalls,
          configs, isSaving, saveSuccess, stored, tests, saving, resetTimers,
          cfgEvent, edits, testsStarted, savesStarted,
          supabase, connectionStatus, questionCount, dcError,
          fqCall, fqOut, queriesIssued, fetches>>
cfgVars == <<configs, isSaving, saveSuccess, stored, tests, saving, resetTimers,
             cfgEvent, edits, testsStarted, savesStarted>>

dcVars == <<supabase, connectionStatus, questionCount, dcError,
            fqCall, fqOut, queriesIssued, fetches>>

\* what the handlers of one component leave alone
outsideQE == <<fnVars, pbVars, cfgVars, dcVars>>
outsideFn == <<qeVars, pbVars, cfgVars, dcVars>>
outsidePB == <<qeVars, fnVars, cfgVars, dcVars>>
outsideCfg == <<qeVars, fnVars, pbVars, dcVars>>
outsideDC == <<qeVars, fnVars, pbVars, cfgVars>>

----------------------------------------------------------------------------
(* Bounds of the model *)

\* searches submitted in one run of the user interface
MaxSearches == 2
\* largest topK a direct call is made with
MaxTopK == 12
\* pieces (words and separators) a text passed to processQuery is made of
MaxPieces == 4
\* questions in a batch passed to processBatch directly
MaxBatch == 6
\* key and endpoint edits in one run of EnvironmentSetup
MaxEdits == 2
\* connection tests started in one run of EnvironmentSetup
MaxTests == 2
\* saves started in one run of EnvironmentSetup
MaxSaves == 1
\* fetchQuestions calls made in one run of DataConnector
MaxFetches == 2

----------------------------------------------------------------------------
(* Strings *)

Whitespace == {" "}

LowerChar(c) ==
    CASE c = "B" -> "b"
      [] c = "C" -> "c"
      [] c = "H" -> "h"
      [] OTHER -> c

\* String.prototype.toLowerCase
ToLowerCase(s) == [i \in 1..Len(s) |-> LowerChar(s[i])]

RECURSIVE TrimStart(_)
TrimStart(s) ==
    IF s # <<>> /\ Head(s) \in Whitespace THEN TrimStart(Tail(s)) ELSE s

RECURSIVE TrimEnd(_)
TrimEnd(s) ==
    IF s # <<>> /\ s[Len(s)] \in Whitespace
    THEN TrimEnd(SubSeq(s, 1, Len(s) - 1))
    ELSE s

\* only the leading whitespace is removed
TrimStartOnly(s) == TrimStart(s)

\* String.prototype.trim
Trim(s) == TrimEnd(TrimStart(s))

\* String.prototype.split(/\s+/): the pieces between maximal runs of
\* whitespace; a run at either end leaves an empty piece there, and the
\* empty string splits into one empty piece.
RECURSIVE SplitFrom(_, _, _)
SplitFrom(s, cur, acc) ==
    IF s = <<>> THEN Append(acc, cur)
    ELSE IF Head(s) \in Whitespace
         THEN SplitFrom(TrimStart(s), <<>>, Append(acc, cur))
         ELSE SplitFrom(Tail(s), Append(cur, Head(s)), acc)

SplitWhitespace(s) == SplitFrom(s, <<>>, <<>>)

\* Array.prototype.filter((term) => term.length > 3)
RECURSIVE LongTerms(_)
LongTerms(ts) ==
    IF ts = <<>> THEN <<>>
    ELSE IF Len(Head(ts)) > 3
         THEN <<Head(ts)>> \o LongTerms(Tail(ts))
         ELSE LongTerms(Tail(ts))

\* processQuery(queryText)
processQuery(queryText) ==
    [ originalQuery |-> queryText,
      processedQuery |-> Trim(ToLowerCase(queryText)),
      keyTerms |-> LongTerms(SplitWhitespace(ToLowerCase(queryText))),
      queryVector |-> <<>> ]

----------------------------------------------------------------------------
(* Mock retrieval *)

Max(a, b) == IF a >= b THEN a ELSE b

\* decimal digits of n >= 0, as the template literal `${i}` prints them
RECURSIVE Digits(_)
Digits(n) ==
    IF n < 10
    THEN <<<<"0", "1", "2", "3", "4", "5", "6", "7", "8", "9">>[n + 1]>>
    ELSE Digits(n \div 10) \o Digits(n % 10)

\* Array.from({ length: topK }, ...): ToLength clamps a negative length to 0
ArrayLength(topK) == Max(topK, 0)

\* the filter value is dropped and the default always used
FilterOrDefaultOnly(f, key, default) == default

\* filters.bookname || "Sample Medical Book": a missing or empty value is falsy
FilterOr(f, key, default) ==
    IF key \in DOMAIN f /\ f[key] # "" THEN f[key] ELSE default

\* the id is built from the parity of the index, not the index
MockIdParity(i) == <<"r", "e", "s", "u", "l", "t", "-">> \o Digits(i % 2)

\* id: `result-${i}`
MockId(i) == <<"r", "e", "s", "u", "l", "t", "-">> \o Digits(i)

\* the score grows with the index instead of falling
MockScoreRising(i) == 15 * i

\* score: 1 - i * 0.15, in hundredths
MockScore(i) == 100 - 15 * i

\* content: the template names the query, the strategy and the position
MockContent(processedQuery, strat, i) ==
    <<processedQuery, strat, IF i = 0 THEN "most relevant" ELSE ToString(i + 1)>>

MockMetadata(f, i) ==
    [ bookname |-> FilterOr(f, "bookname", "Sample Medical Book"),
      chapter |-> FilterOr(f, "chapter", "Chapter " \o ToString(i + 1)),
      question_number |-> i + 1 ]

\* the mockResults array of retrieveRelevantContent; element n is index i = n - 1
MockResults(processedQuery, strat, f, topK) ==
    [ n \in 1..ArrayLength(topK) |->
        [ id |-> MockId(n - 1),
          content |-> MockContent(processedQuery, strat, n - 1),
          score |-> MockScore(n - 1),
          metadata |-> MockMetadata(f, n - 1) ] ]

\* topK = 5, the default parameter of retrieveRelevantContent and findSimilar
DefaultTopK == 5

\* id: `mock-id-${i}`
SimilarId(i) == <<"m", "o", "c", "k", "-", "i", "d", "-">> \o Digits(i)

\* score: 1 - i * 0.1, in hundredths
SimilarScore(i) == 100 - 10 * i

\* findSimilar(text, topK): what the returned promise resolves to
findSimilar(text, topK) ==
    [ n \in 1..ArrayLength(topK) |->
        [ id |-> SimilarId(n - 1),
          score |-> SimilarScore(n - 1),
          content |-> <<"mock similar item", ToString(n)>> ] ]

----------------------------------------------------------------------------
(* QueryEngine: the user interface *)

Strategies == {"semantic", "keyword", "hybrid"}

\* texts the user types into the query box
Queries ==
    { <<>>,
      <<" ">>,
      <<"C", "a", "t", " ">>,
      <<"c", "a", "t">> }

\* texts passed to the retrieval functions directly
RawTexts ==
    Queries \cup { <<"H", "e", "a", "r", "t">>,
                   <<" ", "H", "e", "a", "r", "t", " ", "c", "a", "t">>,
                   <<"c", "a", "r", "d", "i", "a", "c", " ",
                     "s", "y", "m", "p", "t", "o", "m", "s">> }

\* words and separators of the texts passed to processQuery
Pieces ==
    { <<" ">>, <<",">>, <<"c", "a", "t">>, <<"b", "e", "a", "t">>,
      <<"B", "e", "a", "t">> }

RECURSIVE Flatten(_)
Flatten(ps) == IF ps = <<>> THEN <<>> ELSE Head(ps) \o Flatten(Tail(ps))

\* the texts of at most MaxPieces pieces
Texts ==
    { Flatten(ps) : ps \in UNION { [1..k -> Pieces] : k \in 0..MaxPieces } }

Booknames == {"", "Anatomy"}
Chapters == {"", "Chapter 9"}

\* what identifies a search: normalized text, filters, strategy and top_k
Fingerprint(call) ==
    <<call.processedQuery, call.filters, call.strategy, call.topK>>

QEInit ==
    /\ query = <<>>
    /\ isSearching = FALSE
    /\ results = <<>>
    /\ strategy = "hybrid"
    /\ filters = [bookname |-> "", chapter |-> ""]
    /\ showFilters = FALSE
    /\ inflight = <<>>
    /\ computed = {}
    /\ submitted = 0

\* Input onChange: setQuery(e.target.value)
SetQuery(q) ==
    /\ q # query
    /\ query' = q
    /\ UNCHANGED <<isSearching, results, strategy, filters, showFilters,
                   inflight, computed, submitted, outsideQE>>

\* Tabs onValueChange: setStrategy(v)
SetStrategy(s) ==
    /\ s # strategy
    /\ strategy' = s
    /\ UNCHANGED <<query, isSearching, results, filters, showFilters,
                   inflight, computed, submitted, outsideQE>>

\* filter Button onClick: setShowFilters(!showFilters)
ToggleFilters ==
    /\ showFilters' = ~showFilters
    /\ UNCHANGED <<query, isSearching, results, strategy, filters,
                   inflight, computed, submitted, outsideQE>>

\* Book Name input (rendered only while showFilters): setFilters({...filters, bookname})
SetBookname(b) ==
    /\ showFilters
    /\ b # filters.bookname
    /\ filters' = [filters EXCEPT !.bookname = b]
    /\ UNCHANGED <<query, isSearching, results, strategy, showFilters,
                   inflight, computed, submitted, outsideQE>>

\* Chapter input (rendered only while showFilters): setFilters({...filters, chapter})
SetChapter(c) ==
    /\ showFilters
    /\ c # filters.chapter
    /\ filters' = [filters EXCEPT !.chapter = c]
    /\ UNCHANGED <<query, isSearching, results, strategy, showFilters,
                   inflight, computed, submitted, outsideQE>>

\* handleSearch up to its await: the guard on the trimmed query, processQuery,
\* and retrieveRelevantContent up to its timer (setIsSearching(true)).
\* handleSearch passes no topK, so the default applies.
handleSearch ==
    /\ Trim(query) # <<>>
    /\ submitted < MaxSearches
    /\ LET call == [ processedQuery |-> processQuery(query).processedQuery,
                     strategy |-> strategy,
                     filters |-> filters,
                     topK |-> DefaultTopK ]
       IN  inflight' = Append(inflight,
               [ call |-> call, repeat |-> Fingerprint(call) \in computed ])
    /\ isSearching' = TRUE
    /\ submitted' = submitted + 1
    /\ UNCHANGED <<query, results, strategy, filters, showFilters, computed, outsideQE>>

\* search Button onClick; the button is disabled while isSearching
ClickSearch ==
    /\ ~isSearching
    /\ handleSearch

\* Input onKeyDown: e.key === "Enter" && handleSearch(); never disabled
PressEnter == handleSearch

\* The 1500 ms timer of the oldest pending call fires (equal delays fire in
\* the order they were set): the mock results are generated,
\* setIsSearching(false), and handleSearch resumes with setResults(results).
RetrievalResolves ==
    /\ inflight # <<>>
    /\ LET call == Head(inflight).call
       IN  /\ results' = MockResults(call.processedQuery, call.strategy,
                                     call.filters, call.topK)
           /\ computed' = computed \cup {Fingerprint(call)}
    /\ isSearching' = FALSE
    /\ inflight' = Tail(inflight)
    /\ UNCHANGED <<query, strategy, filters, showFilters, submitted, outsideQE>>

\* one step of the user interface
Next ==
    \/ \E q \in Queries : SetQuery(q)
    \/ \E s \in Strategies : SetStrategy(s)
    \/ ToggleFilters
    \/ \E b \in Booknames : SetBookname(b)
    \/ \E c \in Chapters : SetChapter(c)
    \/ ClickSearch
    \/ PressEnter
    \/ RetrievalResolves

----------------------------------------------------------------------------
(* Direct calls of the retrieval functions *)

\* the metadata fields of a document (VectorReadyQuestion.metadata)
MetadataSchema ==
    {"bookname", "chapter", "chapter_index", "question_number", "correct_answer"}

FilterKeys == {"bookname", "chapter", "author"}
FilterValues == {"", "Anatomy"}

\* the filters argument, a Record<string, string>
FilterRecords ==
    UNION { [K -> FilterValues] : K \in SUBSET FilterKeys }

TopKs == (0 - 1)..MaxTopK

NoCall == [fn |-> "none"]

\* no direct call is made: the state of the user-interface specification
FnIdle ==
    /\ fnIn = NoCall
    /\ fnOut = [kind |-> "none"]

\* the arguments a direct call is made with
FnInit ==
    /\ fnIn \in
         [ fn : {"retrieveRelevantContent"}, raw : RawTexts,
           strategy : Strategies, filters : FilterRecords, topK : TopKs ]
         \cup [ fn : {"findSimilar"}, raw : RawTexts, topK : TopKs ]
         \cup [ fn : {"processQuery"}, raw : Texts ]
    /\ fnOut = [kind |-> "pending"]

\* processQuery(raw) followed by retrieveRelevantContent(processedQuery,
\* strategy, filters, topK), as handleSearch chains them; the promise
\* resolves to the mock results.
CallRetrieve ==
    /\ fnIn.fn = "retrieveRelevantContent"
    /\ fnOut.kind = "pending"
    /\ fnOut' = [ kind |-> "results",
                  results |-> MockResults(processQuery(fnIn.raw).processedQuery,
                                          fnIn.strategy, fnIn.filters, fnIn.topK) ]
    /\ UNCHANGED <<fnIn, outsideFn>>

\* findSimilar(text, topK)
CallFindSimilar ==
    /\ fnIn.fn = "findSimilar"
    /\ fnOut.kind = "pending"
    /\ fnOut' = [ kind |-> "results", results |-> findSimilar(fnIn.raw, fnIn.topK) ]
    /\ UNCHANGED <<fnIn, outsideFn>>

\* processQuery(queryText)
CallProcessQuery ==
    /\ fnIn.fn = "processQuery"
    /\ fnOut.kind = "pending"
    /\ fnOut' = [ kind |-> "query", value |-> processQuery(fnIn.raw) ]
    /\ UNCHANGED <<fnIn, outsideFn>>

FnNext ==
    \/ CallRetrieve
    \/ CallFindSimilar
    \/ CallProcessQuery

----------------------------------------------------------------------------
(* VectorProcessor: batch embedding *)

\* Array.from({ length: 10 }, ...) in handleProcessSample
SampleSize == 10

\* Math.floor in the place of Math.round
RoundPercentFloor(done, total) == (100 * done) \div total

\* Math.round((done / total) * 100): halves round up
RoundPercent(done, total) == (200 * done + total) \div (2 * total)

PBInit ==
    /\ processingStatus = "idle"
    /\ progress = 0
    /\ totalItems = 0
    /\ processedItems = 0
    /\ pbError = "null"
    /\ embedding = 0
    /\ embedCalls = <<>>

\* processBatch(questions) with n questions, up to its first await: the four
\* setters, then embedText of the first question is called; an empty batch
\* runs through to "complete" at once.
processBatch(n) ==
    /\ totalItems' = n
    /\ processedItems' = 0
    /\ progress' = 0
    /\ IF n = 0
       THEN /\ processingStatus' = "complete"
            /\ embedding' = 0
            /\ embedCalls' = <<>>
       ELSE /\ processingStatus' = "processing"
            /\ embedding' = 1
            /\ embedCalls' = [q \in 1..n |-> IF q = 1 THEN 1 ELSE 0]
    /\ UNCHANGED <<pbError, outsidePB>>

\* the "Process Sample Batch" button, disabled while processing
handleProcessSample ==
    /\ processingStatus # "processing"
    /\ processBatch(SampleSize)

\* processBatch called with a batch of another size, one batch at a time
ProcessOtherBatch(n) ==
    /\ processingStatus # "processing"
    /\ processBatch(n)

\* an embedding call that fails is called again
EmbedTextRejectsRetried ==
    /\ embedding # 0
    /\ embedCalls' = [embedCalls EXCEPT ![embedding] = @ + 1]
    /\ UNCHANGED <<processingStatus, progress, totalItems, processedItems,
                   pbError, embedding, outsidePB>>

\* the awaited embedText resolves: progress is updated and the loop either
\* calls embedText for the next question or ends with "complete"
EmbedTextResolves ==
    /\ embedding # 0
    /\ processedItems' = embedding
    /\ progress' = RoundPercent(embedding, totalItems)
    /\ IF embedding < totalItems
       THEN /\ embedding' = embedding + 1
            /\ embedCalls' = [embedCalls EXCEPT ![embedding + 1] = @ + 1]
            /\ UNCHANGED processingStatus
       ELSE /\ embedding' = 0
            /\ processingStatus' = "complete"
            /\ UNCHANGED embedCalls
    /\ UNCHANGED <<totalItems, pbError, outsidePB>>

\* the awaited embedText rejects (the embedding service fails): the catch
\* block records the message and ends the batch with "error"
EmbedTextRejects ==
    /\ embedding # 0
    /\ pbError' = "embedding failed"
    /\ processingStatus' = "error"
    /\ embedding' = 0
    /\ UNCHANGED <<progress, totalItems, processedItems, embedCalls, outsidePB>>

PBNext ==
    \/ handleProcessSample
    \/ \E n \in 0..MaxBatch : ProcessOtherBatch(n)
    \/ EmbedTextResolves
    \/ EmbedTextRejects

\* searches of one query text and batches side by side
PipelineNext ==
    \/ \E q \in Queries : SetQuery(q)
    \/ ClickSearch
    \/ PressEnter
    \/ RetrievalResolves
    \/ PBNext

----------------------------------------------------------------------------
(* EnvironmentSetup: service configuration *)

\* useState initial value of configs
DefaultConfigs ==
    << [ name |-> "openrouter", status |-> "unconfigured", key |-> <<>>,
         endpoint |-> "https://openrouter.ai/api/v1",
         description |-> "OpenRouter API for accessing Deepseek-r1 model" ],
       [ name |-> "supabase", status |-> "unconfigured", key |-> <<>>,
         endpoint |-> "",
         description |-> "Supabase for database and vector storage" ] >>

\* keys the user types: blank, 3 characters, 11 characters
Keys ==
    { <<" ">>,
      <<"a", "b", "c">>,
      <<"s", "k", "-", "1", "2", "3", "4", "5", "6", "7", "8">> }

\* endpoints the user types
Endpoints == {"", "https://openrouter.ai/api/v1"}

\* config.key.trim().length > 10
MinKeyLength == 10

\* JSON.stringify of a value made of arrays, objects and strings
Stringify(value) == [kind |-> "json", value |-> value]

\* a text that is not JSON
GarbageText == [kind |-> "garbage"]

\* localStorage.getItem of a missing item
NoItem == [kind |-> "null"]

\* JSON.parse: the value, or a SyntaxError
Parse(text) ==
    IF text.kind = "json"
    THEN [ok |-> TRUE, value |-> text.value]
    ELSE [ok |-> FALSE]

\* JSON that parses but is no list of service configs: [{"foo": "bar"}]
WrongShapeValue == << [foo |-> "bar"] >>

\* an exported configuration with a tested key
SampleExport ==
    [DefaultConfigs EXCEPT
        ![1].key = <<"s", "k", "-", "1", "2", "3", "4", "5", "6", "7", "8">>,
        ![1].status = "valid"]

\* files the user picks in the import dialog
ImportFiles == {GarbageText, Stringify(WrongShapeValue), Stringify(SampleExport)}

\* a list of objects with the fields of ServiceConfig
IsServiceConfigs(value) ==
    \A i \in DOMAIN value :
        DOMAIN value[i] = {"name", "status", "key", "endpoint", "description"}

\* The component renders config.key.trim() of every element, so with configs
\* of another shape the render throws and no control is left on the page.
Rendered == IsServiceConfigs(configs)

\* the useEffect on mount: a saved item that parses replaces configs
LoadOnMount(item) ==
    IF item.kind # "null" /\ Parse(item).ok
    THEN Parse(item).value
    ELSE DefaultConfigs

\* the component mounted in a browser whose storage holds `item`
Mounted(item) ==
    /\ stored = item
    /\ configs = LoadOnMount(item)
    /\ isSaving = FALSE
    /\ saveSuccess = FALSE
    /\ tests = <<>>
    /\ saving = [pending |-> FALSE]
    /\ resetTimers = 0
    /\ cfgEvent = [op |-> "mount", alert |-> ""]
    /\ edits = 0
    /\ testsStarted = 0
    /\ savesStarted = 0

\* a browser with nothing stored
CfgInit == Mounted(NoItem)

\* a browser whose storage may hold a corrupt item
CfgInitAnyStorage ==
    \E item \in {NoItem, GarbageText, Stringify(WrongShapeValue)} : Mounted(item)

\* updateConfig(index, updates) of a render whose configs were `closure`
updateConfig(closure, index, updates) ==
    [closure EXCEPT ![index] =
        [f \in DOMAIN closure[index] |->
            IF f \in DOMAIN updates THEN updates[f] ELSE closure[index][f]]]

\* key Input onChange: updateConfig(index, { key, status: "configuring" })
SetKey(index, key) ==
    /\ Rendered
    /\ index \in DOMAIN configs
    /\ edits < MaxEdits
    /\ key # configs[index].key
    /\ configs' = updateConfig(configs, index,
                               [key |-> key, status |-> "configuring"])
    /\ edits' = edits + 1
    /\ cfgEvent' = [op |-> "edit", index |-> index, alert |-> ""]
    /\ UNCHANGED <<isSaving, saveSuccess, stored, tests, saving, resetTimers,
                   testsStarted, savesStarted, outsideCfg>>

\* endpoint Input onChange: updateConfig(index, { endpoint, status: "configuring" })
SetEndpoint(index, endpoint) ==
    /\ Rendered
    /\ index \in DOMAIN configs
    /\ edits < MaxEdits
    /\ endpoint # configs[index].endpoint
    /\ configs' = updateConfig(configs, index,
                               [endpoint |-> endpoint, status |-> "configuring"])
    /\ edits' = edits + 1
    /\ cfgEvent' = [op |-> "edit", index |-> index, alert |-> ""]
    /\ UNCHANGED <<isSaving, saveSuccess, stored, tests, saving, resetTimers,
                   testsStarted, savesStarted, outsideCfg>>

\* "Test Connection" onClick, disabled while testing or with a blank key:
\* testConfig(index) up to its await.  The call keeps the configs of the
\* render it was made in, for config.key and for its later updateConfig.
testConfig(index) ==
    /\ Rendered
    /\ index \in DOMAIN configs
    /\ configs[index].status # "testing"
    /\ Trim(configs[index].key) # <<>>
    /\ testsStarted < MaxTests
    /\ configs' = updateConfig(configs, index, [status |-> "testing"])
    /\ tests' = Append(tests, [index |-> index, closure |-> configs])
    /\ testsStarted' = testsStarted + 1
    /\ cfgEvent' = [op |-> "test", index |-> index, alert |-> ""]
    /\ UNCHANGED <<isSaving, saveSuccess, stored, saving, resetTimers,
                   edits, savesStarted, outsideCfg>>

\* the verdict of a test is "valid" for every key that is not blank
VerdictNotBlank(key) ==
    IF Trim(key) # <<>> THEN "valid" ELSE "invalid"

\* config.key.trim().length > 10 ? "valid" : "invalid"
Verdict(key) ==
    IF Len(Trim(key)) > MinKeyLength THEN "valid" ELSE "invalid"

\* The 1500 ms timer of the oldest test fires: the verdict on the key the
\* call captured is written with the updateConfig of the call's render.
TestCompletes ==
    /\ tests # <<>>
    /\ LET t == Head(tests)
       IN  /\ configs' =
                 IF Rendered
                 THEN updateConfig(t.closure, t.index,
                          [status |-> Verdict(t.closure[t.index].key)])
                 ELSE configs
           /\ cfgEvent' = [op |-> "testDone", index |-> t.index, alert |-> ""]
    /\ tests' = Tail(tests)
    /\ UNCHANGED <<isSaving, saveSuccess, stored, saving, resetTimers,
                   edits, testsStarted, savesStarted, outsideCfg>>

\* "Save Configuration" onClick, disabled while saving: saveConfigurations
\* up to its await, keeping the configs of the render it was made in
saveConfigurations ==
    /\ Rendered
    /\ ~isSaving
    /\ savesStarted < MaxSaves
    /\ isSaving' = TRUE
    /\ saving' = [pending |-> TRUE, closure |-> configs]
    /\ savesStarted' = savesStarted + 1
    /\ cfgEvent' = [op |-> "save", alert |-> ""]
    /\ UNCHANGED <<configs, saveSuccess, stored, tests, resetTimers,
                   edits, testsStarted, outsideCfg>>

\* the item written is that of the configs now on screen
SaveWritesCurrent ==
    /\ saving.pending
    /\ stored' = Stringify(configs)
    /\ isSaving' = FALSE
    /\ saveSuccess' = TRUE
    /\ resetTimers' = resetTimers + 1
    /\ saving' = [pending |-> FALSE]
    /\ cfgEvent' = [op |-> "saveDone", alert |-> ""]
    /\ UNCHANGED <<configs, tests, edits, testsStarted, savesStarted, outsideCfg>>

\* The 1000 ms timer of the save fires: localStorage.setItem of the call's
\* configs, setIsSaving(false), setSaveSuccess(true), and the 3 s timer is set.
SaveCompletes ==
    /\ saving.pending
    /\ stored' = Stringify(saving.closure)
    /\ isSaving' = FALSE
    /\ saveSuccess' = TRUE
    /\ resetTimers' = resetTimers + 1
    /\ saving' = [pending |-> FALSE]
    /\ cfgEvent' = [op |-> "saveDone", alert |-> ""]
    /\ UNCHANGED <<configs, tests, edits, testsStarted, savesStarted, outsideCfg>>

\* a 3 s timer fires: setSaveSuccess(false)
SuccessExpires ==
    /\ resetTimers > 0
    /\ resetTimers' = resetTimers - 1
    /\ saveSuccess' = FALSE
    /\ cfgEvent' = [op |-> "successExpired", alert |-> ""]
    /\ UNCHANGED <<configs, isSaving, stored, tests, saving,
                   edits, testsStarted, savesStarted, outsideCfg>>

\* importConfig with the file read: JSON that parses replaces configs, a
\* SyntaxError raises the alert
importConfig(file) ==
    /\ Rendered
    /\ IF Parse(file).ok
       THEN /\ configs' = Parse(file).value
            /\ cfgEvent' = [op |-> "import", file |-> file, alert |-> ""]
       ELSE /\ configs' = configs
            /\ cfgEvent' = [op |-> "import", file |-> file,
                            alert |-> "Invalid configuration file"]
    /\ UNCHANGED <<isSaving, saveSuccess, stored, tests, saving, resetTimers,
                   edits, testsStarted, savesStarted, outsideCfg>>

\* The page is loaded again: every pending timer of the old page is gone and
\* the component mounts on what the storage holds; a SyntaxError is only
\* logged to the console.
Reload ==
    /\ cfgEvent.op # "mount"
    /\ configs' = LoadOnMount(stored)
    /\ isSaving' = FALSE
    /\ saveSuccess' = FALSE
    /\ tests' = <<>>
    /\ saving' = [pending |-> FALSE]
    /\ resetTimers' = 0
    /\ cfgEvent' = [op |-> "mount", alert |-> ""]
    /\ UNCHANGED <<stored, edits, testsStarted, savesStarted, outsideCfg>>

CfgNext ==
    \/ \E i \in 1..2, k \in Keys : SetKey(i, k)
    \/ \E i \in 1..2, e \in Endpoints : SetEndpoint(i, e)
    \/ \E i \in 1..2 : testConfig(i)
    \/ TestCompletes
    \/ saveConfigurations
    \/ SaveCompletes
    \/ SuccessExpires
    \/ \E f \in ImportFiles : importConfig(f)
    \/ Reload

\* keys typed while only editing and testing: those of Keys, and a key of 10
\* characters followed by a space
TestKeys ==
    Keys \cup { <<"s", "k", "-", "1", "2", "3", "4", "5", "6", "7", " ">> }

\* key edits, endpoint edits and connection tests, with no save, import or
\* load of stored data
EditTestNext ==
    \/ \E i \in 1..2, k \in TestKeys : SetKey(i, k)
    \/ \E i \in 1..2, e \in Endpoints : SetEndpoint(i, e)
    \/ \E i \in 1..2 : testConfig(i)
    \/ TestCompletes

----------------------------------------------------------------------------
(* DataConnector (src/MainDashboard.tsx): the connection and fetchQuestions *)

\* a JavaScript value that may be null: null, or a value
Null == [null |-> TRUE]
NonNull(v) == [null |-> FALSE, value |-> v]

\* an optional property: undefined, or a value
Undefined == [def |-> FALSE]
Some(v) == [def |-> TRUE, v |-> v]

\* the filters argument of fetchQuestions: absent, or an object any of whose
\* properties may be absent; "" and 0 are the falsy values of their types
FilterObjects ==
    [ bookname : {Undefined, Some(""), Some("Anatomy")},
      chapter  : {Undefined, Some("Thorax")},
      active   : {Undefined, Some(TRUE), Some(FALSE)},
      limit    : {Undefined, Some(0), Some(5)},
      offset   : {Undefined, Some(0), Some(20)} ]
FetchFilters == {Undefined} \cup {Some(f) : f \in FilterObjects}

\* filters?.name
Field(fetchFilters, name) ==
    IF fetchFilters.def THEN fetchFilters.v[name] ELSE Undefined

\* if (x) for a string and for a number
TruthyString(x) == x.def /\ x.v # ""
TruthyNumber(x) == x.def /\ x.v # 0

\* x || d for a number
NumberOr(x, d) == IF TruthyNumber(x) THEN x.v ELSE d

\* the query fetchQuestions builds: the builder calls in the order made
BuildQuery(fetchFilters) ==
    LET bookname == Field(fetchFilters, "bookname")
        chapter  == Field(fetchFilters, "chapter")
        active   == Field(fetchFilters, "active")
        limit    == Field(fetchFilters, "limit")
        offset   == Field(fetchFilters, "offset")
    IN  << [op |-> "from", table |-> "quiz_questions"],
           [op |-> "select", columns |-> "*"] >>
        \o (IF TruthyString(bookname)
            THEN << [op |-> "eq", column |-> "bookname", value |-> bookname.v] >>
            ELSE << >>)
        \o (IF TruthyString(chapter)
            THEN << [op |-> "eq", column |-> "chapter", value |-> chapter.v] >>
            ELSE << >>)
        \o (IF active.def
            THEN << [op |-> "eq", column |-> "active", value |-> active.v] >>
            ELSE << >>)
        \o (IF TruthyNumber(limit)
            THEN << [op |-> "limit", count |-> limit.v] >>
            ELSE << >>)
        \o (IF TruthyNumber(offset)
            THEN << [op |-> "range", from |-> offset.v,
                     to |-> offset.v + NumberOr(limit, 10) - 1] >>
            ELSE << >>)

\* what awaiting a query can give: {data, error: null} with the rows,
\* {data: null, error} with the database's error, or an exception
QueryAnswers ==
    { [kind |-> "resolved", data |-> NonNull(<< >>), error |-> Null],
      [kind |-> "resolved", data |-> NonNull(<<"q1", "q2">>), error |-> Null],
      [kind |-> "resolved", data |-> Null,
       error |-> NonNull([message |-> "permission denied"])],
      [kind |-> "thrown", err |-> [message |-> "Failed to fetch"]] }

\* what awaiting the count query of the connection test can give
CountAnswers ==
    { [count |-> NonNull(0), error |-> Null],
      [count |-> NonNull(7), error |-> Null],
      [count |-> Null, error |-> Null],
      [count |-> Null, error |-> NonNull([message |-> "permission denied"])] }

\* the query answered with an error or threw
Failed(answer) ==
    \/ answer.kind = "thrown"
    \/ answer.kind = "resolved" /\ ~answer.error.null

\* the value the catch block receives
Caught(answer) ==
    IF answer.kind = "thrown" THEN answer.err ELSE answer.error.value

NoFetch == [pending |-> FALSE, called |-> FALSE]

DCInit ==
    /\ supabase = Null
    /\ connectionStatus = "connecting"
    /\ questionCount = 0
    /\ dcError = Null
    /\ fqCall = NoFetch
    /\ fqOut = [outcome |-> "none"]
    /\ queriesIssued = 0
    /\ fetches = 0

\* initSupabase: the credentials are missing (or createClient throws)
InitSupabaseFails ==
    /\ connectionStatus = "connecting"
    /\ supabase.null
    /\ dcError' = NonNull("Missing Supabase credentials")
    /\ connectionStatus' = "error"
    /\ UNCHANGED <<supabase, questionCount, fqCall, fqOut, queriesIssued, fetches>>
    /\ UNCHANGED outsideDC

\* initSupabase up to its await: the client is stored, the count query sent
ClientCreated ==
    /\ connectionStatus = "connecting"
    /\ supabase.null
    /\ supabase' = NonNull("client")
    /\ UNCHANGED <<connectionStatus, questionCount, dcError, fqCall, fqOut,
                   queriesIssued, fetches>>
    /\ UNCHANGED outsideDC

\* initSupabase after its await
CountResolves(answer) ==
    /\ connectionStatus = "connecting"
    /\ ~supabase.null
    /\ IF answer.error.null
       THEN /\ questionCount' = (IF answer.count.null THEN 0 ELSE answer.count.value)
            /\ connectionStatus' = "connected"
            /\ UNCHANGED dcError
       ELSE /\ dcError' = NonNull(answer.error.value.message)
            /\ connectionStatus' = "error"
            /\ UNCHANGED questionCount
    /\ UNCHANGED <<supabase, fqCall, fqOut, queriesIssued, fetches>>
    /\ UNCHANGED outsideDC

\* return {data, error}
FqReturn(data, error) == [outcome |-> "returned", data |-> data, error |-> error]

\* fetchQuestions up to its await, or to its early return
fetchQuestions(fetchFilters) ==
    /\ fetches < MaxFetches
    /\ ~fqCall.pending
    /\ fetches' = fetches + 1
    /\ IF supabase.null
       THEN /\ fqOut' = FqReturn(Null, NonNull("Supabase client not initialized"))
            /\ fqCall' = [pending |-> FALSE, called |-> TRUE, client |-> FALSE,
                          filters |-> fetchFilters]
            /\ UNCHANGED queriesIssued
       ELSE /\ fqOut' = [outcome |-> "pending"]
            /\ fqCall' = [pending |-> TRUE, called |-> TRUE, client |-> TRUE,
                          filters |-> fetchFilters,
                          query |-> BuildQuery(fetchFilters)]
            /\ queriesIssued' = queriesIssued + 1
    /\ UNCHANGED <<supabase, connectionStatus, questionCount, dcError>>
    /\ UNCHANGED outsideDC

\* fetchQuestions without its try / catch: a failure leaves the call rejected
QueryResolvesUncaught(answer) ==
    /\ fqCall.pending
    /\ fqCall' = [fqCall EXCEPT !.pending = FALSE] @@ [answer |-> answer]
    /\ fqOut' = IF Failed(answer)
                THEN [outcome |-> "rejected", reason |-> Caught(answer)]
                ELSE FqReturn(answer.data, Null)
    /\ UNCHANGED <<supabase, connectionStatus, questionCount, dcError,
                   queriesIssued, fetches>>
    /\ UNCHANGED outsideDC

\* fetchQuestions after its await: if (error) throw error, and the catch
QueryResolves(answer) ==
    /\ fqCall.pending
    /\ fqCall' = [fqCall EXCEPT !.pending = FALSE] @@ [answer |-> answer]
    /\ fqOut' = IF Failed(answer)
                THEN FqReturn(Null, NonNull(Caught(answer).message))
                ELSE FqReturn(answer.data, Null)
    /\ UNCHANGED <<supabase, connectionStatus, questionCount, dcError,
                   queriesIssued, fetches>>
    /\ UNCHANGED outsideDC

\* the Retry Connection button: window.location.reload() mounts the
\* component again, and a call in progress is gone with the old page
RetryConnection ==
    /\ connectionStatus = "error"
    /\ supabase' = Null
    /\ connectionStatus' = "connecting"
    /\ questionCount' = 0
    /\ dcError' = Null
    /\ fqCall' = NoFetch
    /\ fqOut' = [outcome |-> "none"]
    /\ UNCHANGED <<queriesIssued, fetches>>
    /\ UNCHANGED outsideDC

DCNext ==
    \/ InitSupabaseFails
    \/ ClientCreated
    \/ \E answer \in CountAnswers : CountResolves(answer)
    \/ \E fetchFilters \in FetchFilters : fetchQuestions(fetchFilters)
    \/ \E answer \in QueryAnswers : QueryResolves(answer)
    \/ RetryConnection

----------------------------------------------------------------------------
(* Specifications *)

\* the user interface of QueryEngine
Init == QEInit /\ FnIdle /\ PBInit /\ CfgInit /\ DCInit
Spec == Init /\ [][Next]_vars

\* the retrieval functions called with arguments of every shape
FnSpecInit == QEInit /\ FnInit /\ PBInit /\ CfgInit /\ DCInit
FnSpec == FnSpecInit /\ [][FnNext]_vars

\* searching and batch embedding
PipelineSpec == Init /\ [][PipelineNext]_vars

\* VectorProcessor: batches of every size up to MaxBatch and the sample batch
BatchSpec == Init /\ [][PBNext]_vars

\* EnvironmentSetup in a browser whose storage may hold a corrupt item
ConfigInit == QEInit /\ FnIdle /\ PBInit /\ CfgInitAnyStorage /\ DCInit
ConfigSpec == ConfigInit /\ [][CfgNext]_vars

\* EnvironmentSetup with edits and tests only
EditTestSpec == Init /\ [][EditTestNext]_vars

\* the same, where a timer that is set fires: setTimeout(resolve, 1500)
TestLiveSpec == Init /\ [][EditTestNext]_vars /\ WF_vars(TestCompletes)

\* DataConnector: the connection effect and fetchQuestions calls
FetchSpec == Init /\ [][DCNext]_vars

----------------------------------------------------------------------------
(* Helpers of the properties *)

\* UTF-16 code units of the characters that occur in result ids
CharCode(c) ==
    CASE c = "-" -> 45
      [] c = "0" -> 48 [] c = "1" -> 49 [] c = "2" -> 50 [] c = "3" -> 51
      [] c = "4" -> 52 [] c = "5" -> 53 [] c = "6" -> 54 [] c = "7" -> 55
      [] c = "8" -> 56 [] c = "9" -> 57
      [] c = "c" -> 99 [] c = "d" -> 100 [] c = "e" -> 101 [] c = "i" -> 105
      [] c = "k" -> 107 [] c = "l" -> 108 [] c = "m" -> 109 [] c = "o" -> 111
      [] c = "r" -> 114 [] c = "s" -> 115 [] c = "t" -> 116 [] c = "u" -> 117

\* a < b in the lexicographic order of strings
RECURSIVE StringLess(_, _)
StringLess(a, b) ==
    IF b = <<>> THEN FALSE
    ELSE IF a = <<>> THEN TRUE
    ELSE IF Head(a) # Head(b) THEN CharCode(Head(a)) < CharCode(Head(b))
    ELSE StringLess(Tail(a), Tail(b))

Returned ==
    /\ fnIn.fn \in {"retrieveRelevantContent", "findSimilar"}
    /\ fnOut.kind # "pending"
    /\ fnOut.kind # "none"

ProcessQueryReturned == fnIn.fn = "processQuery" /\ fnOut.kind = "query"

Punctuation == {",", ".", "?", "!", ";", ":"}

Uppercase == {"B", "C", "H"}

\* s without its repeated elements, the first occurrence of each kept
RECURSIVE RemoveDuplicates(_)
RemoveDuplicates(s) ==
    IF s = <<>> THEN <<>>
    ELSE LET front == RemoveDuplicates(SubSeq(s, 1, Len(s) - 1))
             last == s[Len(s)]
         IN  IF \E i \in 1..(Len(s) - 1) : s[i] = last
             THEN front
             ELSE Append(front, last)

RetrieveReturned == Returned /\ fnIn.fn = "retrieveRelevantContent"

----------------------------------------------------------------------------
(* Properties *)

\* C1: single-flight.  Searches with the same fingerprint (normalized text,
\* filters, strategy, top_k) submitted while the first is still in flight
\* share one retrieval: no two retrievals in flight have the same fingerprint.
C1_SingleFlight ==
    \A i, j \in DOMAIN inflight :
        i # j => Fingerprint(inflight[i].call) # Fingerprint(inflight[j].call)

\* C2: idempotence.  A search whose fingerprint was already computed by a
\* search that completed is a cache hit: it returns the same results and
\* starts no retrieval, so no retrieval in flight is such a repeat.
C2_RepeatIsCacheHit ==
    \A i \in DOMAIN inflight : ~inflight[i].repeat

\* C4: a retrieval called with top_k <= 0 returns the InvalidTopK error and
\* no list of results.
C4_InvalidTopK ==
    (Returned /\ fnIn.topK <= 0) => fnOut.kind = "InvalidTopK"

\* C5: an empty or whitespace-only raw query is processed into a query with
\* no key terms, and its retrieval is rejected with the EmptyQuery error.
C5_EmptyQueryRejected ==
    (RetrieveReturned /\ Trim(fnIn.raw) = <<>>) =>
        /\ processQuery(fnIn.raw).keyTerms = <<>>
        /\ fnOut.kind = "EmptyQuery"

\* C6: for top_k = k > 0 the returned sequence has at most k items, sorted by
\* score descending, equal scores ordered by id ascending.
C6_RankedTopK ==
    (Returned /\ fnOut.kind = "results" /\ fnIn.topK > 0) =>
        /\ Len(fnOut.results) <= fnIn.topK
        /\ \A i, j \in DOMAIN fnOut.results :
              i < j =>
                \/ fnOut.results[i].score > fnOut.results[j].score
                \/ /\ fnOut.results[i].score = fnOut.results[j].score
                   /\ StringLess(fnOut.results[i].id, fnOut.results[j].id)

\* a call of each function with top_k >= 2 has returned at least two results
C6_Witness ==
    /\ Returned
    /\ fnOut.kind = "results"
    /\ fnIn.topK >= 2
    /\ Len(fnOut.results) >= 2
    /\ fnOut.results[1].score > fnOut.results[2].score

\* C7: for top_k > 0 every score of a returned result lies in [0, 1]
\* (0..100 hundredths).
C7_ScoresInUnitInterval ==
    (Returned /\ fnOut.kind = "results" /\ fnIn.topK > 0) =>
        \A i \in DOMAIN fnOut.results :
            fnOut.results[i].score >= 0 /\ fnOut.results[i].score <= 100

\* C8: deduplication.  Every document id occurs once in a result sequence.
C8_IdsUnique ==
    (Returned /\ fnOut.kind = "results") =>
        \A i, j \in DOMAIN fnOut.results :
            i # j => fnOut.results[i].id # fnOut.results[j].id

\* a hybrid retrieval has returned several results
C8_Witness ==
    /\ RetrieveReturned
    /\ fnIn.strategy = "hybrid"
    /\ fnOut.kind = "results"
    /\ Len(fnOut.results) >= 3

C10_UnknownFilterKeyRejected ==
    (RetrieveReturned /\ \E key \in DOMAIN fnIn.filters : key \notin MetadataSchema) =>
        fnOut.kind # "results"

\* C11: degraded mode.  A semantic search for which no query vector is
\* available is answered with keyword scoring and flagged degraded, and no
\* failure is raised.
C11_DegradedSemantic ==
    (RetrieveReturned /\ fnIn.strategy = "semantic"
        /\ processQuery(fnIn.raw).queryVector = <<>>) =>
        /\ fnOut.kind = "results"
        /\ "degraded" \in DOMAIN fnOut
        /\ fnOut.degraded = TRUE
        /\ \A i \in DOMAIN fnOut.results : fnOut.results[i].content[2] = "keyword"

\* C12: the processed query is the raw text lowercased with leading and
\* trailing whitespace removed, and processing it again changes nothing.
C12_Normalized ==
    ProcessQueryReturned =>
        LET raw == fnIn.raw
            p == fnOut.value.processedQuery
        IN  /\ \E a, b \in 0..Len(raw) :
                /\ a + Len(p) + b = Len(raw)
                /\ \A k \in 1..a : raw[k] \in Whitespace
                /\ \A k \in (Len(raw) - b + 1)..Len(raw) : raw[k] \in Whitespace
                /\ \A k \in 1..Len(p) :
                      /\ p[k] \notin Uppercase
                      /\ \/ p[k] = raw[a + k]
                         \/ raw[a + k] \in Uppercase /\ p[k] = LowerChar(raw[a + k])
            /\ (p # <<>> => p[1] \notin Whitespace /\ p[Len(p)] \notin Whitespace)
            /\ processQuery(p).processedQuery = p

\* a text with capitals and whitespace at both ends has been processed
C12_Witness ==
    /\ ProcessQueryReturned
    /\ Len(fnIn.raw) >= 6
    /\ fnIn.raw[1] \in Whitespace
    /\ fnIn.raw[Len(fnIn.raw)] \in Whitespace
    /\ \E k \in DOMAIN fnIn.raw : fnIn.raw[k] \in Uppercase
    /\ Len(fnOut.value.processedQuery) = Len(fnIn.raw) - 2

\* C13: key_terms holds the tokens longer than 3 characters in order of first
\* occurrence, each once.
C13_KeyTermsDistinct ==
    ProcessQueryReturned =>
        fnOut.value.keyTerms =
            RemoveDuplicates(LongTerms(SplitWhitespace(ToLowerCase(fnIn.raw))))

\* C14: tokens are split on punctuation as well as whitespace, so no key term
\* holds a whitespace or punctuation character.
C14_NoPunctuationInTerms ==
    ProcessQueryReturned =>
        \A i \in DOMAIN fnOut.value.keyTerms :
            \A k \in DOMAIN fnOut.value.keyTerms[i] :
                fnOut.value.keyTerms[i][k] \notin (Whitespace \cup Punctuation)

\* C15: on the corpus a, b, c of the example, the query "cardiac symptoms"
\* with strategy keyword and top_k = 2 returns the ids a, c in that order.
C15_KeywordExample ==
    (RetrieveReturned
        /\ fnIn.raw = <<"c", "a", "r", "d", "i", "a", "c", " ",
                        "s", "y", "m", "p", "t", "o", "m", "s">>
        /\ fnIn.strategy = "keyword"
        /\ fnIn.filters = <<>>
        /\ fnIn.topK = 2) =>
        /\ fnOut.kind = "results"
        /\ Len(fnOut.results) = 2
        /\ fnOut.results[1].id = <<"a">>
        /\ fnOut.results[2].id = <<"c">>

\* C16: no automatic retry.  A retrieval is started only by a submitted
\* search, one per search; embedText is called at most once for each question
\* of a batch; an embedding failure ends the batch in "error" with no call
\* pending and no further call made.
C16_NoRetry ==
    /\ [](\A q \in DOMAIN embedCalls : embedCalls[q] <= 1)
    /\ [](processingStatus = "error" => embedding = 0)
    /\ [][ /\ (Len(inflight') > Len(inflight) =>
                 submitted' = submitted + 1 /\ Len(inflight') = Len(inflight) + 1)
           /\ (submitted' # submitted => Len(inflight') = Len(inflight) + 1)
           /\ ((embedding # 0 /\ processingStatus' = "error") =>
                 embedCalls' = embedCalls)
           /\ ((embedding # 0 /\ embedding' = embedding) =>
                 embedCalls' = embedCalls) ]_vars

\* a batch has failed at its third question after a search was answered
C16_Witness ==
    /\ processingStatus = "error"
    /\ processedItems = 2
    /\ totalItems > 3
    /\ submitted = 2
    /\ inflight = <<>>

\* a file or stored item that holds a list of service configs
IsValidConfigText(text) == Parse(text).ok /\ IsServiceConfigs(Parse(text).value)

\* C17: a connection test ends "valid" exactly when the config's key is not
\* empty after trimming, and "invalid" otherwise.
C17_ValidIffKeyNotBlank ==
    (cfgEvent.op = "testDone" /\ Rendered) =>
        configs[cfgEvent.index].status =
            VerdictNotBlank(configs[cfgEvent.index].key)

\* C18: when a save completes, the stored item holds the configs in memory at
\* that moment, edits made during the save included, and a mount on that item
\* restores exactly that list.
C18_SaveRoundTrip ==
    cfgEvent.op = "saveDone" =>
        /\ Parse(stored).ok
        /\ Parse(stored).value = configs
        /\ LoadOnMount(stored) = configs

\* C19: importing a file that is no valid configuration leaves configs
\* unchanged and reports "Invalid configuration file"; a mount on a corrupt
\* stored item keeps the default configs and reports the same.
C19_InvalidImportRejected ==
    [][ /\ (cfgEvent'.op = "import" /\ ~IsValidConfigText(cfgEvent'.file)) =>
              /\ configs' = configs
              /\ cfgEvent'.alert = "Invalid configuration file"
        /\ (cfgEvent'.op = "mount" /\ cfgEvent.op # "mount"
              /\ stored.kind # "null" /\ ~IsValidConfigText(stored)) =>
              /\ configs' = DefaultConfigs
              /\ cfgEvent'.alert = "Invalid configuration file" ]_vars

\* C20: fetchQuestions never throws: it returns a pair {data, error} of which
\* exactly one is non-null; without a database client it returns the error
\* "Supabase client not initialized" and issues no query; a query failure is
\* returned as an error value with data null.
C20_FetchNeverThrows ==
    /\ [](/\ fqOut.outcome \in {"none", "pending", "returned"}
          /\ fqOut.outcome = "returned" =>
                /\ fqOut.data.null # fqOut.error.null
                /\ ~fqCall.client =>
                      fqOut.error = NonNull("Supabase client not initialized")
                /\ (fqCall.client /\ Failed(fqCall.answer)) =>
                      /\ fqOut.data.null
                      /\ fqOut.error = NonNull(Caught(fqCall.answer).message))
    /\ [][(fetches' # fetches /\ supabase.null) =>
              /\ queriesIssued' = queriesIssued
              /\ fqOut'.outcome = "returned"]_vars

\* a query that failed has been returned as an error value, after a call
\* without a client
C20_Witness ==
    /\ fetches = 2
    /\ queriesIssued = 1
    /\ fqOut.outcome = "returned"
    /\ fqCall.client
    /\ Failed(fqCall.answer)
    /\ fqOut.data.null
    /\ ~fqOut.error.null

\* embedText calls made so far in the batch
CallsMade == Cardinality({q \in DOMAIN embedCalls : embedCalls[q] > 0})

\* C21: during and after processBatch, 0 <= processedItems <= totalItems and
\* progress is 100 * processedItems / totalItems rounded to the nearest
\* integer; questions are embedded one at a time in input order; "complete"
\* is reached only with processedItems = totalItems, and a failure at item i
\* (counted from 0) leaves status "error" with processedItems = i.
C21_BatchProgress ==
    /\ 0 <= processedItems /\ processedItems <= totalItems
    /\ totalItems > 0 =>
          /\ 2 * progress * totalItems - totalItems <= 200 * processedItems
          /\ 200 * processedItems < 2 * progress * totalItems + totalItems
    /\ \A q \in DOMAIN embedCalls :
          /\ embedCalls[q] <= 1
          /\ embedCalls[q] = 1 => \A r \in 1..q : embedCalls[r] = 1
    /\ processingStatus = "processing" =>
          /\ embedding = processedItems + 1
          /\ CallsMade = processedItems + 1
    /\ processingStatus = "complete" =>
          /\ processedItems = totalItems
          /\ CallsMade = totalItems
    /\ processingStatus = "error" => processedItems = CallsMade - 1

\* the third question of a batch of three failed after two were embedded
C21_Witness ==
    /\ processingStatus = "error"
    /\ totalItems = 3
    /\ processedItems = 2
    /\ progress = 67
    /\ CallsMade = 3

\* C22: the completion of a connection test changes only the status of the
\* tested config: every key and endpoint, and the status of every other
\* config, are after the completion what they were just before it.
C22_TestFrame ==
    [][(cfgEvent'.op = "testDone" /\ tests' # tests /\ Rendered /\ Rendered') =>
          /\ DOMAIN configs' = DOMAIN configs
          /\ \A j \in DOMAIN configs :
                /\ configs'[j].key = configs[j].key
                /\ configs'[j].endpoint = configs[j].endpoint
                /\ j # cfgEvent'.index =>
                      configs'[j].status = configs[j].status]_vars

\* C23: a config whose status is "testing" eventually gets status "valid" or
\* "invalid", with no further action of the user.
C23_TestsConclude ==
    \A i \in 1..2 :
        (configs[i].status = "testing")
            ~> (configs[i].status \in {"valid", "invalid"})

C25_SearchingWhileInFlight ==
    [][ /\ inflight' # <<>> => isSearching'
        /\ (isSearching /\ ~isSearching') => inflight' = <<>>
        /\ (inflight # <<>> /\ inflight' = <<>>) =>
              LET last == inflight[Len(inflight)].call
              IN  results' = MockResults(last.processedQuery, last.strategy,
                                         last.filters, last.topK) ]_vars

====
